---- MODULE Spec2Model ----
(***************************************************************************)
(* Time Tracker (Frappe app): time logging, bulk import, hour updates and  *)
(* the billing reports, as state machines over the committed document      *)
(* store.                                                                  *)
(*                                                                         *)
(* Request parameters arrive as text: a text is a sequence of one-character*)
(* strings, and Python's None and the empty string are both <<>> (the code *)
(* only ever tests them with `or` / `not`, which treat them alike).        *)
(* Numbers are integers (whole hours, whole currency units); the texts are *)
(* signed decimal numerals or garbage, not "nan", "inf" or fractions.      *)
(***************************************************************************)
EXTENDS Integers, Sequences, FiniteSets, TLC

VARIABLES timeLogs, projectRates, last, bulk, jobs, outbox, errorLog

vars == <<timeLogs, projectRates, last, bulk, jobs, outbox, errorLog>>

\* The state besides the committed documents and the response in flight: the
\* bulk import in progress, the background jobs, the mails sent, the Error Log.
sideVars == <<bulk, jobs, outbox, errorLog>>

----------------------------------------------------------------------------
(* Bounds of the model.                                                    *)

MaxLogs == 2

MaxBatch == 3

\* The number of Error Log entries written in a run.
MaxErrors == 2

\* The number of background jobs enqueued in a run.
MaxJobs == 2

\* In the long-run scenario, the number of leading entries whose hours vary.
BigVary == 2

----------------------------------------------------------------------------
(* Values.                                                                 *)

None == <<>>

Truthy(v) == v # <<>>

\* Python's `a or b`
Or(a, b) == IF Truthy(a) THEN a ELSE b

Digits == {"0", "1", "2", "3", "4", "5", "6", "7", "8", "9"}

DigitVal(c) ==
    CASE c = "0" -> 0 [] c = "1" -> 1 [] c = "2" -> 2 [] c = "3" -> 3
      [] c = "4" -> 4 [] c = "5" -> 5 [] c = "6" -> 6 [] c = "7" -> 7
      [] c = "8" -> 8 [] c = "9" -> 9

RECURSIVE ParseDigits(_)
ParseDigits(s) ==
    IF s = <<>> THEN 0
    ELSE 10 * ParseDigits(SubSeq(s, 1, Len(s) - 1)) + DigitVal(s[Len(s)])

AllDigits(s) == Len(s) > 0 /\ \A i \in 1..Len(s) : s[i] \in Digits

\* A text Python's float()/int() accept: an optional sign and digits.
IsNumeral(s) ==
    \/ AllDigits(s)
    \/ Len(s) > 1 /\ s[1] = "-" /\ AllDigits(Tail(s))

NumeralVal(s) == IF s[1] = "-" THEN 0 - ParseDigits(Tail(s)) ELSE ParseDigits(s)

\* A flt that gives 1 for every text that is no unsigned numeral.
fltWrong(s) == IF IsNumeral(s) /\ s[1] # "-" THEN NumeralVal(s) ELSE 1

\* frappe.utils.flt: float(s), and 0.0 where float() raises ("abc", "", None).
flt(s) == IF IsNumeral(s) THEN NumeralVal(s) ELSE 0

\* Python's int(): the value, or ValueError.
int(s) ==
    IF IsNumeral(s) THEN [ok |-> TRUE, val |-> NumeralVal(s)]
    ELSE [ok |-> FALSE, val |-> 0]

\* Dates are <<year, month, day>>.
Today == <<2024, 1, 15>>

today == Today

YEAR(d) == d[1]

MONTH(d) == d[2]

----------------------------------------------------------------------------
(* The site: users, their roles and permissions, and the projects.         *)

Users == {"emp", "mgr", "hr", "guest"}

Roles(u) ==
    CASE u = "mgr" -> {"Time Tracker Manager"}
      [] u = "hr" -> {"HR Manager"}
      [] OTHER -> {}

\* frappe.has_permission("Time Log", ptype) for the session user: employees
\* and managers may create Time Logs.
has_permission(u, ptype) ==
    CASE ptype = "create" -> u \in {"emp", "mgr"}
      [] ptype = "read" -> u \in {"emp", "mgr", "hr"}
      [] OTHER -> FALSE

\* frappe.has_permission("Time Log", "write", doc=doc): a manager may write
\* any Time Log, an employee the ones they own.
has_write_permission(u, doc) == u = "mgr" \/ (u = "emp" /\ doc.logged_by = u)

\* frappe.only_for(roles): passes when the user holds one of the roles.
only_for(u, roles) == Roles(u) \cap roles # {}

Projects == {<<"P", "1">>, <<"P", "2">>}

P1 == <<"P", "1">>

P2 == <<"P", "2">>

NoProject == <<"N", "O", "P", "E">>

\* frappe.db.exists("Project", name)
db_exists(name) == name \in Projects

NoRate == <<>>

Rates == {NoRate, <<0>>, <<10>>}

----------------------------------------------------------------------------
(* Results of a call: the exception raised ("" when the call returns), the *)
(* returned payload, the committed store afterwards, and the numbers of    *)
(* store reads and commits the call issued.                                *)

Result(exc, ret, store, reads, commits) ==
    [exc |-> exc, ret |-> ret, store |-> store, reads |-> reads, commits |-> commits]

NoRet == <<>>

Call(op, caller, args, fault, r) ==
    [op |-> op, caller |-> caller, args |-> args, fault |-> fault,
     exc |-> r.exc, ret |-> r.ret, reads |-> r.reads, commits |-> r.commits]

----------------------------------------------------------------------------
(* Document lifecycle of a Time Log (doc.insert / doc.save).               *)

\* frappe.get_doc({...}): a new Time Log in memory, docstatus 0 (draft).
get_doc(project, hours, log_date, user) ==
    [project |-> project, hours |-> hours, log_date |-> log_date,
     logged_by |-> user, docstatus |-> 0]

\* before_insert hook: rejects an entry whose hours exceed 24.
validate_time_log(doc) == doc.hours <= 24

\* The project reference of a Time Log must name an existing Project.
validate_links(doc) == db_exists(doc.project)

\* doc.insert(ignore_permissions=False): the exception it raises, "" if none.
\* fault: "insert" = the store rejects the row, "hook" = a lifecycle hook
\* (after_insert / on_update: update_project_billing) raises.
insert(doc, caller, fault) ==
    IF ~has_permission(caller, "create") THEN "PermissionError"
    ELSE IF ~validate_time_log(doc) THEN "ValidationError"
    ELSE IF ~validate_links(doc) THEN "ValidationError"
    ELSE IF fault = "insert" THEN "DatabaseError"
    ELSE IF fault = "hook" THEN "HookError"
    ELSE ""

\* The name of the document inserted into `store` ("TL-<n>").
NewName(store) == Len(store) + 1

----------------------------------------------------------------------------
(* log_time(project, hours, description, log_date)                         *)

\* A write whose row stays in the store when a later step fails.
log_time_writeNoRollback(store, doc, caller, fault) ==
    LET e == insert(doc, caller, IF fault = "hook" THEN "none" ELSE fault)
        tx == Append(store, doc)
    IN  IF e # "" THEN Result(e, NoRet, store, 1, 0)
        ELSE IF fault = "hook" THEN Result("HookError", NoRet, tx, 1, 0)
        ELSE IF fault = "stop" THEN Result("Stopped", NoRet, tx, 1, 0)
        ELSE IF fault = "commit" THEN Result("DatabaseError", NoRet, tx, 1, 1)
        ELSE Result("", [success |-> TRUE, time_log |-> NewName(store)], tx, 1, 1)

\* The transaction of log_time from the insert on: the row is written to
\* the working copy, then committed. A failure before the commit completes
\* (or the process stopping there) leaves the committed store as it was.
log_time_write(store, doc, caller, fault) ==
    LET e == insert(doc, caller, fault)
        tx == Append(store, doc)
    IN  IF e # "" THEN Result(e, NoRet, store, 1, 0)
        ELSE IF fault = "stop" THEN Result("Stopped", NoRet, store, 1, 0)
        ELSE IF fault = "commit" THEN Result("DatabaseError", NoRet, store, 1, 1)
        ELSE Result("", [success |-> TRUE, time_log |-> NewName(store)], tx, 1, 1)

log_time(store, caller, project, hours, log_date, fault) ==
    IF ~Truthy(project) THEN Result("ValidationError", NoRet, store, 0, 0)
    ELSE LET h == flt(hours) IN
    IF h <= 0 THEN Result("ValidationError", NoRet, store, 0, 0)
    ELSE IF h > 24 THEN Result("ValidationError", NoRet, store, 0, 0)
    ELSE IF ~has_permission(caller, "create")
         THEN Result("PermissionError", NoRet, store, 0, 0)
    ELSE IF ~db_exists(project) THEN Result("ValidationError", NoRet, store, 1, 0)
    ELSE log_time_write(store, get_doc(project, h, Or(log_date, today), caller),
                        caller, fault)

\* Whether the call reaches doc.insert (only then can a fault strike).
log_time_reaches_insert(caller, project, hours) ==
    /\ Truthy(project) /\ flt(hours) > 0 /\ flt(hours) <= 24
    /\ has_permission(caller, "create") /\ db_exists(project)

----------------------------------------------------------------------------
(* safe_update_hours(time_log_name, new_hours)                             *)

\* doc.save(ignore_permissions=False): the exception it raises, "" if none.
\* Saving runs the on_update hook only; before_insert is not run again.
\* fault: "save" = the store rejects the update, "hook" = on_update raises.
save(doc, caller, fault) ==
    IF ~has_write_permission(caller, doc) THEN "PermissionError"
    ELSE IF ~validate_links(doc) THEN "ValidationError"
    ELSE IF fault = "save" THEN "DatabaseError"
    ELSE IF fault = "hook" THEN "HookError"
    ELSE ""

\* The fixed text of the last handler, and the title of its Error Log entry.
OpaqueMessage == "Something went wrong. Check Error Log for details."

ErrorTitle == "Time Tracker: Failed to update hours"

\* What the try block does: the exception it raises ("" when it returns)
\* with its text, the value returned, the committed store and the commits.
Tried(raised, text, ret, store, commits) ==
    [raised |-> raised, text |-> text, ret |-> ret, store |-> store,
     commits |-> commits]

safe_update_hours_try(store, caller, time_log_name, new_hours, fault) ==
    IF time_log_name \notin 1..Len(store)
    THEN Tried("DoesNotExistError", "Time Log not found in the database", NoRet, store, 0)
    ELSE LET doc == store[time_log_name] IN
    IF doc.logged_by # caller /\ ~has_write_permission(caller, doc)
    THEN Tried("PermissionError", "You can only edit your own time logs", NoRet, store, 0)
    ELSE LET old_hours == doc.hours
             changed == [doc EXCEPT !.hours = new_hours]
             e == save(changed, caller, fault)
         IN  IF e # "" THEN Tried(e, "save failed: " \o e, NoRet, store, 0)
             ELSE IF fault = "commit"
             THEN Tried("DatabaseError", "commit failed: DatabaseError", NoRet, store, 1)
             ELSE Tried("", "",
                        [success |-> TRUE, time_log |-> time_log_name,
                         old_hours |-> old_hours, new_hours |-> new_hours],
                        [store EXCEPT ![time_log_name] = changed], 1)

\* The outcome of the call: Result and the message of the error raised and
\* the entries written to the Error Log.
Outcome(exc, msg, t, logged) ==
    [exc |-> exc, msg |-> msg, ret |-> t.ret, store |-> t.store, reads |-> 1,
     commits |-> t.commits, logged |-> logged]

\* frappe.get_traceback(): the traceback names the exception and its text.
get_traceback(t) == <<t.raised, t.text>>

\* Handlers that turn a permission failure into the generic error.
safe_update_hours_exceptHidesPermission(t) ==
    IF t.raised = "" THEN Outcome("", "", t, <<>>)
    ELSE IF t.raised = "DoesNotExistError"
    THEN Outcome("ValidationError", "Time Log not found", t, <<>>)
    ELSE Outcome("ValidationError", OpaqueMessage, t,
                 <<[title |-> ErrorTitle, message |-> get_traceback(t)]>>)

\* Handlers that pass the text of an unexpected exception on, unlogged.
safe_update_hours_exceptLeaks(t) ==
    IF t.raised = "" THEN Outcome("", "", t, <<>>)
    ELSE IF t.raised = "PermissionError" THEN Outcome("PermissionError", t.text, t, <<>>)
    ELSE IF t.raised = "DoesNotExistError"
    THEN Outcome("ValidationError", "Time Log not found", t, <<>>)
    ELSE Outcome("ValidationError", t.text, t, <<>>)

\* The three except clauses: PermissionError is re-raised, DoesNotExistError
\* becomes a not-found message, anything else is logged and replaced by the
\* fixed message (frappe.throw raises ValidationError).
safe_update_hours_except(t) ==
    IF t.raised = "" THEN Outcome("", "", t, <<>>)
    ELSE IF t.raised = "PermissionError" THEN Outcome("PermissionError", t.text, t, <<>>)
    ELSE IF t.raised = "DoesNotExistError"
    THEN Outcome("ValidationError", "Time Log not found", t, <<>>)
    ELSE Outcome("ValidationError", OpaqueMessage, t,
                 <<[title |-> ErrorTitle, message |-> get_traceback(t)]>>)

safe_update_hours(store, caller, time_log_name, new_hours_text, fault) ==
    LET new_hours == flt(new_hours_text)
    IN  safe_update_hours_except(
            safe_update_hours_try(store, caller, time_log_name, new_hours, fault))

\* Whether the call reaches doc.save (only then can a fault strike).
safe_update_hours_reaches_save(store, caller, time_log_name) ==
    /\ time_log_name \in 1..Len(store)
    /\ has_write_permission(caller, store[time_log_name])

----------------------------------------------------------------------------
(* bulk_log_time(logs)                                                     *)

\* The parsed argument: a list of items, or something that is no list.
List(items) == [is_list |-> TRUE, items |-> items]

NotAList == [is_list |-> FALSE, items |-> <<>>]

\* A loop body that inserts with ignore_permissions=True.
bulk_item_errorIgnoresPermissions(log_data, caller) ==
    IF ~Truthy(log_data.project) THEN "ValueError"
    ELSE LET hours == flt(log_data.hours) IN
    IF hours <= 0 THEN "ValueError"
    ELSE insert(get_doc(log_data.project, hours, Or(log_data.log_date, today), caller),
                "mgr", "none")

\* One pass of the loop body for item idx (0-based): the exception the item
\* raises ("" when the document is inserted).
bulk_item_error(log_data, caller) ==
    IF ~Truthy(log_data.project) THEN "ValueError"
    ELSE LET hours == flt(log_data.hours) IN
    IF hours <= 0 THEN "ValueError"
    ELSE insert(get_doc(log_data.project, hours, Or(log_data.log_date, today), caller),
                caller, "none")

RECURSIVE bulk_loop(_, _, _, _)

\* A loop that stops at the first item that raises.
bulk_loopAbort(logs, caller, idx, acc) ==
    IF idx >= Len(logs) THEN acc
    ELSE LET log_data == logs[idx + 1]
             e == bulk_item_error(log_data, caller)
         IN  IF e # ""
             THEN [acc EXCEPT !.errors = Append(@, [index |-> idx, error |-> e])]
             ELSE bulk_loop(logs, caller, idx + 1,
                       [acc EXCEPT !.tx = Append(@, get_doc(log_data.project,
                                         flt(log_data.hours),
                                         Or(log_data.log_date, today), caller)),
                                   !.created = Append(@, NewName(acc.tx))])

\* The for loop from item idx+1 on; acc = [tx, created, errors].
bulk_loop(logs, caller, idx, acc) ==
    IF idx >= Len(logs) THEN acc
    ELSE LET log_data == logs[idx + 1]
             e == bulk_item_error(log_data, caller)
         IN  IF e # ""
             THEN bulk_loop(logs, caller, idx + 1,
                       [acc EXCEPT !.errors = Append(@, [index |-> idx, error |-> e])])
             ELSE bulk_loop(logs, caller, idx + 1,
                       [acc EXCEPT !.tx = Append(@, get_doc(log_data.project,
                                         flt(log_data.hours),
                                         Or(log_data.log_date, today), caller)),
                                   !.created = Append(@, NewName(acc.tx))])

bulk_log_time(store, caller, logs) ==
    IF ~logs.is_list THEN Result("ValidationError", NoRet, store, 0, 0)
    ELSE LET acc == bulk_loop(logs.items, caller, 0,
                              [tx |-> store, created |-> <<>>, errors |-> <<>>])
         IN  Result("",
                    [created |-> acc.created, created_count |-> Len(acc.created),
                     errors |-> acc.errors, error_count |-> Len(acc.errors)],
                    acc.tx, 0, 1)

----------------------------------------------------------------------------
(* bulk_log_time step by step. The state of a call in progress is          *)
(* b = [tx, committed, created, errors, commits]: the rows as the call's   *)
(* own transaction sees them, the rows every other request sees, the two   *)
(* result lists, and the number of commits issued so far.                  *)

\* A loop body that commits each row as soon as it is inserted.
bulk_iterationCommits(log_data, caller, idx, b) ==
    LET e == bulk_item_error(log_data, caller)
        doc == get_doc(log_data.project, flt(log_data.hours),
                       Or(log_data.log_date, today), caller)
    IN  IF e # ""
        THEN [b EXCEPT !.errors = Append(@, [index |-> idx, error |-> e])]
        ELSE [b EXCEPT !.tx = Append(@, doc),
                       !.created = Append(@, NewName(b.tx)),
                       !.committed = Append(b.tx, doc),
                       !.commits = @ + 1]

\* One pass of the for loop, for item idx (0-based): insert and record the
\* name, or record the error; nothing is committed.
bulk_iteration(log_data, caller, idx, b) ==
    LET e == bulk_item_error(log_data, caller)
        doc == get_doc(log_data.project, flt(log_data.hours),
                       Or(log_data.log_date, today), caller)
    IN  IF e # ""
        THEN [b EXCEPT !.errors = Append(@, [index |-> idx, error |-> e])]
        ELSE [b EXCEPT !.tx = Append(@, doc),
                       !.created = Append(@, NewName(b.tx))]

\* frappe.db.commit() after the loop.
bulk_commit(b) == [b EXCEPT !.committed = b.tx, !.commits = @ + 1]

\* The state of the call on entry to the loop.
bulk_start(store) ==
    [tx |-> store, committed |-> store, created |-> <<>>, errors |-> <<>>,
     commits |-> 0]

\* No bulk import has been started.
NoBulk ==
    [status |-> "none", caller |-> "guest", items |-> <<>>, idx |-> 0,
     base |-> <<>>, b |-> bulk_start(<<>>)]

----------------------------------------------------------------------------
(* Queries of the Time Log table. A result is the set of the names of the  *)
(* rows it returns (the order of the rows is not modelled).                *)

Names(store) == 1..Len(store)

DateLE(a, b) ==
    \/ a[1] < b[1]
    \/ a[1] = b[1] /\ a[2] < b[2]
    \/ a[1] = b[1] /\ a[2] = b[2] /\ a[3] <= b[3]

\* limit=100 of get_project_summary's get_list
SummaryLimit == 100

Oldest(store, rows) ==
    {d \in rows : \A e \in rows : DateLE(store[d].log_date, store[e].log_date)}

\* The row sets an ORDER BY log_date DESC query may keep after dropping k
\* rows from the end: rows of equal date come in any order.
RECURSIVE DropOldest(_, _, _)
DropOldest(store, rows, k) ==
    IF k <= 0 THEN {rows}
    ELSE UNION {DropOldest(store, rows \ {d}, k - 1) : d \in Oldest(store, rows)}

\* A get_list without the row limit.
get_listNoLimit(store, project) ==
    {{i \in Names(store) : store[i].project = project}}

\* frappe.db.get_list("Time Log", filters={"project": project},
\*                    order_by="log_date desc", limit=100): the possible results.
get_list(store, project) ==
    LET rows == {i \in Names(store) : store[i].project = project}
    IN  DropOldest(store, rows, Cardinality(rows) - SummaryLimit)

\* generate_invoice's SELECT: project, month and year match, docstatus = 0.
invoice_sql(store, project, month, year) ==
    {i \in Names(store) :
        /\ store[i].project = project
        /\ MONTH(store[i].log_date) = month
        /\ YEAR(store[i].log_date) = year
        /\ store[i].docstatus = 0}

\* get_all_employees_hours' WHERE clause: month and year match, docstatus != 2.
employees_sql_rows(store, month, year) ==
    {i \in Names(store) :
        /\ MONTH(store[i].log_date) = month
        /\ YEAR(store[i].log_date) = year
        /\ store[i].docstatus # 2}

\* sum(flt(log.hours) for log in logs); the hours column holds numbers, which
\* flt leaves as they are.
RECURSIVE SumHours(_, _)
SumHours(store, rows) ==
    IF rows = {} THEN 0
    ELSE LET i == CHOOSE j \in rows : TRUE
         IN  store[i].hours + SumHours(store, rows \ {i})

\* frappe.db.get_value("Project", project, "billing_rate")
get_value(rates, project) == IF db_exists(project) THEN rates[project] ELSE None

\* flt(rate) and `rate or 0` of a billing_rate column value: 0 when unset.
flt_rate(v) == IF v = None THEN 0 ELSE v[1]

----------------------------------------------------------------------------
(* get_project_summary(project); logs is the result get_list returned.     *)

\* A summary that bills the number of entries instead of their hours.
get_project_summaryPerEntry(store, rates, caller, project, logs) ==
    IF ~db_exists(project) THEN Result("ValidationError", NoRet, store, 1, 0)
    ELSE IF ~has_permission(caller, "read")
         THEN Result("PermissionError", NoRet, store, 1, 0)
    ELSE LET project_billing_rate == flt_rate(get_value(rates, project))
             total_hours == SumHours(store, logs)
         IN  Result("",
                    [project |-> project, total_hours |-> total_hours,
                     billing_rate |-> project_billing_rate,
                     total_amount |-> Cardinality(logs) * project_billing_rate,
                     log_count |-> Cardinality(logs), logs |-> logs],
                    store, 3, 0)

get_project_summary(store, rates, caller, project, logs) ==
    IF ~db_exists(project) THEN Result("ValidationError", NoRet, store, 1, 0)
    ELSE IF ~has_permission(caller, "read")
         THEN Result("PermissionError", NoRet, store, 1, 0)
    ELSE LET project_billing_rate == flt_rate(get_value(rates, project))
             total_hours == SumHours(store, logs)
             total_amount == total_hours * project_billing_rate
         IN  Result("",
                    [project |-> project, total_hours |-> total_hours,
                     billing_rate |-> project_billing_rate,
                     total_amount |-> total_amount,
                     log_count |-> Cardinality(logs), logs |-> logs],
                    store, 3, 0)

----------------------------------------------------------------------------
(* generate_invoice(project, month, year)                                  *)

\* An invoice body without the check of the billing rate.
invoice_bodyZeroRate(store, rates, caller, project, month, year) ==
    IF ~db_exists(project) THEN Result("ValidationError", NoRet, store, 1, 0)
    ELSE LET billing_rate == flt_rate(get_value(rates, project))
             logs == invoice_sql(store, project, month, year)
         IN
    IF logs = {} THEN Result("ValidationError", NoRet, store, 2, 0)
    ELSE LET total_hours == SumHours(store, logs)
         IN  Result("",
                    [project |-> project, month |-> month, year |-> year,
                     total_hours |-> total_hours, billing_rate |-> billing_rate,
                     total_amount |-> total_hours * billing_rate, logs |-> logs,
                     generated_on |-> today, generated_by |-> caller],
                    store, 2, 0)

\* The invoice from the project lookup on, month and year already integers.
invoice_body(store, rates, caller, project, month, year) ==
    IF ~db_exists(project) THEN Result("ValidationError", NoRet, store, 1, 0)
    ELSE LET billing_rate == flt_rate(get_value(rates, project)) IN
    IF billing_rate = 0 THEN Result("ValidationError", NoRet, store, 1, 0)
    ELSE LET logs == invoice_sql(store, project, month, year) IN
    IF logs = {} THEN Result("ValidationError", NoRet, store, 2, 0)
    ELSE LET total_hours == SumHours(store, logs)
             total_amount == total_hours * billing_rate
         IN  Result("",
                    [project |-> project, month |-> month, year |-> year,
                     total_hours |-> total_hours, billing_rate |-> billing_rate,
                     total_amount |-> total_amount, logs |-> logs,
                     generated_on |-> today, generated_by |-> caller],
                    store, 2, 0)

generate_invoice(store, rates, caller, project, month, year) ==
    LET m == IF Truthy(month) THEN int(month) ELSE [ok |-> TRUE, val |-> MONTH(today)]
        y == IF Truthy(year) THEN int(year) ELSE [ok |-> TRUE, val |-> YEAR(today)]
    IN  IF ~m.ok \/ ~y.ok THEN Result("ValueError", NoRet, store, 0, 0)
        ELSE IF ~only_for(caller, {"Time Tracker Manager", "System Manager"})
             THEN Result("PermissionError", NoRet, store, 0, 0)
        ELSE invoice_body(store, rates, caller, project, m.val, y.val)

----------------------------------------------------------------------------
(* get_all_employees_hours(month, year)                                    *)

\* The number MySQL compares a text parameter as: its value, 0 for a text
\* that is no number.
sql_number(s) == IF IsNumeral(s) THEN NumeralVal(s) ELSE 0

\* GROUP BY logged_by, project with SUM(hours) and COUNT(name).
group_rows(store, rows) ==
    {[logged_by |-> store[i].logged_by, project |-> store[i].project,
      total_hours |-> SumHours(store, {j \in rows :
                          /\ store[j].logged_by = store[i].logged_by
                          /\ store[j].project = store[i].project}),
      entries |-> Cardinality({j \in rows :
                          /\ store[j].logged_by = store[i].logged_by
                          /\ store[j].project = store[i].project})] : i \in rows}

\* ORDER BY total_hours DESC: the orders the rows may come in. The query
\* names no second sort key, so rows of equal total_hours come in any order.
order_by_total_hours_desc(groups) ==
    {s \in [1..Cardinality(groups) -> groups] :
        /\ \A a, b \in 1..Cardinality(groups) : a # b => s[a] # s[b]
        /\ \A a \in 1..(Cardinality(groups) - 1) :
              s[a].total_hours >= s[a + 1].total_hours}

\* `month or today_date.month` as the SQL parameter compares.
period_param(v, default) == IF Truthy(v) THEN sql_number(v) ELSE default

\* The results frappe.db.sql may return for the grouped query.
employees_sql(store, month, year) ==
    order_by_total_hours_desc(
        group_rows(store, employees_sql_rows(store, period_param(month, MONTH(today)),
                                             period_param(year, YEAR(today)))))

\* results is the list frappe.db.sql returned.
get_all_employees_hours(store, caller, month, year, results) ==
    IF ~only_for(caller, {"HR Manager", "System Manager"})
    THEN Result("PermissionError", NoRet, store, 0, 0)
    ELSE LET m == period_param(month, MONTH(today))
             y == period_param(year, YEAR(today))
             rows == employees_sql_rows(store, m, y)
         IN  Result("",
                    [month |-> Or(month, <<MONTH(today)>>),
                     year |-> Or(year, <<YEAR(today)>>),
                     rows |-> rows, data |-> results],
                    store, 1, 0)

----------------------------------------------------------------------------
(* export_annual_report(year) and the background job it enqueues. A job on *)
(* the queue is [method, queue, timeout, year, requested_by, status, runs]; *)
(* a mail is [recipients, year].                                           *)

ReportJob == "time_tracker.api.billing_api._generate_annual_report_job"

\* frappe.enqueue(method=..., queue="long", timeout=1800, now=False,
\*                year=year, requested_by=user): with now=False the job is
\* put on the queue and not run by the caller.
enqueue(queue, method, year, requested_by) ==
    Append(queue, [method |-> method, queue |-> "long", timeout |-> 1800,
                   year |-> year, requested_by |-> requested_by,
                   status |-> "queued", runs |-> 0])

\* frappe.sendmail(recipients=[requested_by], subject=f"Annual Report {year} Ready", ...)
sendmail(sent, recipients, year) == Append(sent, [recipients |-> recipients, year |-> year])

\* A job that notifies the site administrator instead of the requester.
generate_annual_report_jobToAdmin(sent, year, requested_by) ==
    sendmail(sent, {"Administrator"}, year)

\* _generate_annual_report_job(year, requested_by): the mails sent after it.
generate_annual_report_job(sent, year, requested_by) ==
    sendmail(sent, {requested_by}, year)

\* An export that runs the job itself (now=True) instead of enqueuing it.
export_annual_reportNow(queue, sent, caller, year) ==
    LET y == int(year) IN
    IF ~y.ok
    THEN [exc |-> "ValueError", ret |-> NoRet, reads |-> 0, commits |-> 0,
          queue |-> queue, sent |-> sent]
    ELSE [exc |-> "",
          ret |-> [message |-> <<"being generated", y.val>>,
                   tip |-> "Check Scheduled Job Log"],
          reads |-> 0, commits |-> 0,
          queue |-> queue,
          sent |-> generate_annual_report_job(sent, y.val, caller)]

\* The outcome of export_annual_report with the queue and the mails after it.
export_annual_report(queue, sent, caller, year) ==
    LET y == int(year) IN
    IF ~y.ok
    THEN [exc |-> "ValueError", ret |-> NoRet, reads |-> 0, commits |-> 0,
          queue |-> queue, sent |-> sent]
    ELSE [exc |-> "",
          ret |-> [message |-> <<"being generated", y.val>>,
                   tip |-> "Check Scheduled Job Log"],
          reads |-> 0, commits |-> 0,
          queue |-> enqueue(queue, ReportJob, y.val, caller),
          sent |-> sent]

----------------------------------------------------------------------------
(* download_timesheet_csv(project, month, year). A parameter arrives as a  *)
(* text (form-encoded request) or as a number (JSON body, Python caller).  *)

Text(t) == [is_text |-> TRUE, text |-> t, num |-> 0]

Number(n) == [is_text |-> FALSE, text |-> <<>>, num |-> n]

\* The year an f-string date "{year}-..." denotes to the database: <<y>>,
\* or <<>> for a text that is no number (no date compares equal to it).
date_year(year) ==
    IF ~year.is_text THEN <<year.num>>
    ELSE IF AllDigits(year.text) THEN <<NumeralVal(year.text)>>
    ELSE <<>>

\* The first and the last day of the filter, fixed in the code.
FirstDay == 1

LastDay == 28

\* log_date between "{year}-{month:02d}-01" and "{year}-{month:02d}-28"
between(d, lo, hi) == DateLE(lo, d) /\ DateLE(d, hi)

\* frappe.db.get_list("Time Log", filters={"project": ..., "log_date": ["between", ...]})
timesheet_list(store, project, month, year) ==
    IF date_year(year) = <<>> THEN {}
    ELSE {i \in Names(store) :
            /\ store[i].project = project
            /\ between(store[i].log_date,
                       <<date_year(year)[1], month, FirstDay>>,
                       <<date_year(year)[1], month, LastDay>>)}

\* f"{log.log_date},{log.logged_by},{log.hours},{log.description or ''}"
csv_line(log) == <<log.log_date, log.logged_by, log.hours, "">>

\* The response (frappe.response) takes the place of the returned value.
download_timesheet_csv(store, caller, project, month, year) ==
    IF ~only_for(caller, {"Time Tracker Manager", "System Manager"})
    THEN Result("PermissionError", NoRet, store, 0, 0)
    ELSE IF month.is_text
    THEN \* format code 'd' applied to a str
         Result("ValueError", NoRet, store, 0, 0)
    ELSE LET logs == timesheet_list(store, project, month.num, year)
         IN  Result("",
                    [type |-> "download",
                     filename |-> <<"timesheet", project, year, month>>,
                     header |-> "Date,Employee,Hours,Description",
                     rows |-> logs,
                     lines |-> [i \in logs |-> csv_line(store[i])]],
                    store, 1, 0)

----------------------------------------------------------------------------
(* Inputs.                                                                 *)

HoursTexts ==
    {<<"2">>, <<"3">>, <<"2", "4">>, <<"2", "5">>, <<"0">>, <<"-", "1">>,
     <<"a", "b", "c">>}

D1 == <<2024, 2, 10>>

WriteCallers == {"emp", "guest"}

WriteProjects == {None, P1, NoProject}

WriteDates == {None, D1}

Faults == {"none", "insert", "hook", "commit", "stop"}

\* Failures of safe_update_hours after its own checks: in doc.save, in the
\* on_update hook, in the commit.
UpdateFaults == {"none", "save", "hook", "commit"}

BulkItems ==
    {[project |-> P1, hours |-> <<"2">>, log_date |-> None],
     [project |-> P1, hours |-> <<"2", "5">>, log_date |-> D1],
     [project |-> P1, hours |-> <<"0">>, log_date |-> None],
     [project |-> None, hours |-> <<"3">>, log_date |-> None],
     [project |-> NoProject, hours |-> <<"3">>, log_date |-> D1]}

Batches == UNION {[1..n -> BulkItems] : n \in 0..MaxBatch}

\* The batches of the step-by-step import: valid, 25-hour and 0-hour items.
TxBatches ==
    UNION {[1..n -> {i \in BulkItems : i.project = P1}] : n \in 0..MaxBatch}

\* A day of February past the 28th.
D29 == <<2024, 2, 29>>

\* month and year parameters of download_timesheet_csv
CsvMonths == {Text(<<"2">>), Number(1), Number(2)}

CsvYears == {Text(<<"2", "0", "2", "4">>), Number(2024), Text(<<"a", "b", "c">>)}

\* year parameter texts of export_annual_report
YearTexts == {<<"2", "0", "2", "3">>, <<"2", "0", "2", "4">>, <<"a", "b", "c">>}

\* (month, year) parameter texts of the reports
Periods ==
    {<<None, None>>, <<<<"2">>, <<"2", "0", "2", "4">>>>, <<<<"a", "b", "c">>, None>>}

----------------------------------------------------------------------------
(* Actions: one per endpoint, and the events of the site around them.      *)

\* No request is being answered.
Idle == Call("idle", "guest", <<>>, "none", Result("", NoRet, <<>>, 0, 0))

Init ==
    /\ timeLogs = <<>>
    /\ projectRates = [p \in Projects |-> IF p = P1 THEN <<10>> ELSE NoRate]
    /\ last = Idle
    /\ bulk = NoBulk
    /\ jobs = <<>>
    /\ outbox = <<>>
    /\ errorLog = <<>>

LogTime(callers, projects, hourss, dates, faults, cap) ==
    \E caller \in callers, project \in projects, hours \in hourss,
       log_date \in dates, fault \in faults :
        /\ last = Idle
        /\ Len(timeLogs) < cap
        /\ fault # "none" => log_time_reaches_insert(caller, project, hours)
        /\ LET r == log_time(timeLogs, caller, project, hours, log_date, fault)
           IN  /\ timeLogs' = r.store
               /\ last' = Call("log_time", caller,
                               [project |-> project, hours |-> hours,
                                log_date |-> log_date], fault, r)
        /\ UNCHANGED <<projectRates, sideVars>>

SafeUpdateHours(callers, hourss, faults) ==
    \E caller \in callers, name \in 1..(MaxLogs + 1), hours \in hourss,
       fault \in faults :
        /\ last = Idle
        /\ fault # "none" => safe_update_hours_reaches_save(timeLogs, caller, name)
        /\ LET r == safe_update_hours(timeLogs, caller, name, hours, fault)
           IN  /\ timeLogs' = r.store
               /\ Len(errorLog \o r.logged) <= MaxErrors
               /\ errorLog' = errorLog \o r.logged
               /\ last' = Call("safe_update_hours", caller,
                               [time_log_name |-> name, new_hours |-> hours],
                               fault, r) @@ [msg |-> r.msg]
        /\ UNCHANGED <<projectRates, bulk, jobs, outbox>>

BulkLogTime ==
    \E caller \in WriteCallers, logs \in {List(b) : b \in Batches} \cup {NotAList} :
        /\ last = Idle
        /\ LET r == bulk_log_time(timeLogs, caller, logs)
           IN  /\ Len(r.store) <= MaxLogs
               /\ timeLogs' = r.store
               /\ last' = Call("bulk_log_time", caller, [logs |-> logs], "none", r)
        /\ UNCHANGED <<projectRates, sideVars>>

GetProjectSummary(callers) ==
    \E caller \in callers, project \in Projects \cup {NoProject} :
      \E logs \in get_list(timeLogs, project) :
        /\ last = Idle
        /\ LET r == get_project_summary(timeLogs, projectRates, caller, project, logs)
           IN  last' = Call("get_project_summary", caller, [project |-> project],
                            "none", r)
        /\ UNCHANGED <<timeLogs, projectRates, sideVars>>

GenerateInvoice ==
    \E caller \in {"mgr", "emp"}, project \in Projects \cup {NoProject},
       period \in Periods :
        /\ last = Idle
        /\ LET r == generate_invoice(timeLogs, projectRates, caller, project,
                                     period[1], period[2])
           IN  last' = Call("generate_invoice", caller,
                            [project |-> project, month |-> period[1],
                             year |-> period[2]], "none", r)
        /\ UNCHANGED <<timeLogs, projectRates, sideVars>>

GetAllEmployeesHours ==
    \E caller \in {"hr", "emp"}, period \in Periods :
      \E results \in employees_sql(timeLogs, period[1], period[2]) :
        /\ last = Idle
        /\ LET r == get_all_employees_hours(timeLogs, caller, period[1], period[2],
                                            results)
           IN  last' = Call("get_all_employees_hours", caller,
                            [month |-> period[1], year |-> period[2]], "none", r)
        /\ UNCHANGED <<timeLogs, projectRates, sideVars>>

\* bulk_log_time is called with a list: the call enters its loop.
BulkBegin(callers, batches) ==
    \E caller \in callers, items \in batches :
        /\ last = Idle
        /\ bulk.status # "running"
        /\ Len(bulk_log_time(timeLogs, caller, List(items)).store) <= MaxLogs
        /\ bulk' = [status |-> "running", caller |-> caller, items |-> items,
                    idx |-> 0, base |-> timeLogs, b |-> bulk_start(timeLogs)]
        /\ UNCHANGED <<timeLogs, projectRates, last, jobs, outbox, errorLog>>

\* The call in progress handles its next item.
BulkItem ==
    /\ bulk.status = "running"
    /\ bulk.idx < Len(bulk.items)
    /\ LET b == bulk_iteration(bulk.items[bulk.idx + 1], bulk.caller, bulk.idx, bulk.b)
       IN  /\ bulk' = [bulk EXCEPT !.idx = @ + 1, !.b = b]
           /\ timeLogs' = b.committed
    /\ UNCHANGED <<projectRates, last, jobs, outbox, errorLog>>

\* The loop is over: the call commits and returns its two lists.
BulkCommit ==
    /\ bulk.status = "running"
    /\ bulk.idx = Len(bulk.items)
    /\ last = Idle
    /\ LET b == bulk_commit(bulk.b)
       IN  /\ bulk' = [bulk EXCEPT !.status = "committed", !.b = b]
           /\ timeLogs' = b.committed
           /\ last' = Call("bulk_log_time", bulk.caller,
                           [logs |-> List(bulk.items)], "none",
                           Result("",
                                  [created |-> b.created,
                                   created_count |-> Len(b.created),
                                   errors |-> b.errors,
                                   error_count |-> Len(b.errors)],
                                  b.committed, 0, b.commits))
    /\ UNCHANGED <<projectRates, jobs, outbox, errorLog>>

\* The process stops before the commit: the transaction is rolled back.
BulkCrash ==
    /\ bulk.status = "running"
    /\ bulk' = [bulk EXCEPT !.status = "crashed", !.b.tx = bulk.b.committed]
    /\ timeLogs' = bulk.b.committed
    /\ UNCHANGED <<projectRates, last, jobs, outbox, errorLog>>

ExportAnnualReport ==
    \E caller \in {"emp", "mgr"}, year \in YearTexts :
        /\ last = Idle
        /\ Len(jobs) < MaxJobs
        /\ LET r == export_annual_report(jobs, outbox, caller, year)
           IN  /\ jobs' = r.queue
               /\ outbox' = r.sent
               /\ last' = Call("export_annual_report", caller, [year |-> year],
                               "none", r)
        /\ UNCHANGED <<timeLogs, projectRates, bulk, errorLog>>

\* A worker of the job runner takes a queued job and runs it to its end:
\* the job returns after sending its mail, or it raises, and the runner
\* records the failed run in the Error Log.
RunJob ==
    \E i \in 1..Len(jobs), fails \in BOOLEAN :
        /\ jobs[i].status = "queued"
        /\ jobs' = [jobs EXCEPT ![i].status = IF fails THEN "failed" ELSE "finished",
                                ![i].runs = @ + 1]
        /\ outbox' = IF fails THEN outbox
                     ELSE generate_annual_report_job(outbox, jobs[i].year,
                                                     jobs[i].requested_by)
        /\ errorLog' = IF fails
                       THEN Append(errorLog, [title |-> jobs[i].method, job |-> i])
                       ELSE errorLog
        /\ UNCHANGED <<timeLogs, projectRates, last, bulk>>

DownloadTimesheetCsv ==
    \E caller \in {"mgr", "emp"}, project \in {P1, NoProject},
       month \in CsvMonths, year \in CsvYears :
        /\ last = Idle
        /\ LET r == download_timesheet_csv(timeLogs, caller, project, month, year)
           IN  last' = Call("download_timesheet_csv", caller,
                            [project |-> project, month |-> month, year |-> year],
                            "none", r)
        /\ UNCHANGED <<timeLogs, projectRates, sideVars>>

\* A draft Time Log is submitted (docstatus 0 -> 1).
Submit ==
    \E i \in Names(timeLogs) :
        /\ last = Idle
        /\ timeLogs[i].docstatus = 0
        /\ timeLogs' = [timeLogs EXCEPT ![i].docstatus = 1]
        /\ UNCHANGED <<projectRates, last, sideVars>>

\* A submitted Time Log is cancelled (docstatus 1 -> 2).
Cancel ==
    \E i \in Names(timeLogs) :
        /\ last = Idle
        /\ timeLogs[i].docstatus = 1
        /\ timeLogs' = [timeLogs EXCEPT ![i].docstatus = 2]
        /\ UNCHANGED <<projectRates, last, sideVars>>

\* The response of the request is delivered to its caller.
Respond ==
    /\ last # Idle
    /\ last' = Idle
    /\ UNCHANGED <<timeLogs, projectRates, sideVars>>

\* An administrator edits the billing rate of project P1.
SetBillingRate ==
    \E r \in Rates :
        /\ last = Idle
        /\ projectRates[P1] # r
        /\ projectRates' = [projectRates EXCEPT ![P1] = r]
        /\ UNCHANGED <<timeLogs, last, sideVars>>

----------------------------------------------------------------------------
(* Specifications.                                                         *)

\* Time logging and hour updates.
Next ==
    \/ LogTime(WriteCallers, WriteProjects, HoursTexts, WriteDates, Faults, MaxLogs)
    \/ SafeUpdateHours(WriteCallers, HoursTexts, {"none"})
    \/ Respond

Spec == Init /\ [][Next]_vars

\* Bulk import, on a store that single entries are also logged to.
NextBulk ==
    \/ BulkLogTime
    \/ LogTime({"emp"}, {P1}, {<<"3">>}, {None}, {"none"}, MaxLogs)
    \/ Respond

SpecBulk == Init /\ [][NextBulk]_vars

\* The reports, over entries of two projects and two months in every
\* document status, with the billing rate of P1 changing.
NextReport ==
    \/ LogTime({"emp"}, Projects, {<<"2">>, <<"3">>}, WriteDates, {"none"}, MaxLogs)
    \/ Submit
    \/ Cancel
    \/ SetBillingRate
    \/ GetProjectSummary({"emp", "guest"})
    \/ GenerateInvoice
    \/ GetAllEmployeesHours
    \/ Respond

SpecReport == Init /\ [][NextReport]_vars

\* A bulk import running item by item while other requests read the store.
NextBulkTx ==
    \/ BulkBegin({"emp"}, TxBatches)
    \/ BulkItem
    \/ BulkCommit
    \/ BulkCrash
    \/ GetProjectSummary({"emp"})
    \/ Respond

SpecBulkTx == Init /\ [][NextBulkTx]_vars

\* The annual report: requests enqueue jobs, the runner's workers run them.
NextJobs ==
    \/ ExportAnnualReport
    \/ RunJob
    \/ Respond

\* The job runner is fair: a job that stays queued is run.
SpecJobs == Init /\ [][NextJobs]_vars /\ WF_vars(RunJob)

\* Hour updates by the author, a manager and a stranger, with failures of
\* the save, the hook and the commit.
NextUpdate ==
    \/ LogTime({"emp", "mgr"}, {P1}, {<<"2">>}, {None}, {"none"}, MaxLogs)
    \/ SafeUpdateHours(Users, {<<"3">>, <<"a", "b", "c">>}, UpdateFaults)
    \/ Respond

SpecUpdate == Init /\ [][NextUpdate]_vars

\* Every operation that takes numbers as text, and the timesheet export,
\* over entries dated in January and on the 10th and 29th of February.
NextCsv ==
    \/ LogTime({"emp"}, {P1}, {<<"2">>, <<"a", "b", "c">>}, {None, D1, D29},
               {"none"}, MaxLogs)
    \/ SafeUpdateHours({"emp"}, {<<"3">>, <<"a", "b", "c">>}, {"none"})
    \/ GenerateInvoice
    \/ GetAllEmployeesHours
    \/ DownloadTimesheetCsv
    \/ ExportAnnualReport
    \/ Respond

SpecCsv == Init /\ [][NextCsv]_vars

\* A long run of entries on one project, past the summary's row limit.
NextBig ==
    \/ LogTime({"emp"}, {P1},
               IF Len(timeLogs) < BigVary THEN {<<"2">>, <<"3">>} ELSE {<<"2">>},
               {None}, {"none"}, SummaryLimit + 1)
    \/ SetBillingRate
    \/ GetProjectSummary({"emp"})
    \/ Respond

SpecBig == Init /\ [][NextBig]_vars

----------------------------------------------------------------------------
(* Properties.                                                             *)

\* The hours texts that denote a number h with 0 < h <= 24, and their values.
InRangeHoursTexts == {<<"2">>, <<"3">>, <<"2", "4">>}

HoursValue(t) ==
    CASE t = <<"2">> -> 2 [] t = <<"3">> -> 3 [] t = <<"2", "4">> -> 24 [] OTHER -> 0

\* The sum of the hours of the rows in S, by position in the table.
RECURSIVE TotalUpTo(_, _, _)
TotalUpTo(store, S, n) ==
    IF n = 0 THEN 0
    ELSE TotalUpTo(store, S, n - 1) + (IF n \in S THEN store[n].hours ELSE 0)

Total(store, S) == TotalUpTo(store, S, Len(store))

RateOf(p) == IF projectRates[p] = NoRate THEN 0 ELSE projectRates[p][1]

C2_StoredHoursInRange ==
    \A i \in Names(timeLogs) : timeLogs[i].hours > 0 /\ timeLogs[i].hours <= 24

\* An item a caller may log: create permission, an existing project, in-range hours.
ItemIsValid(item, caller) ==
    /\ caller \in {"emp", "mgr"}
    /\ item.project \in Projects
    /\ item.hours \in InRangeHoursTexts

\* C3: bulk_log_time never aborts on a bad item: created_count + error_count
\* is the batch size N, the error indices are exactly the 0-based positions
\* of the invalid items, and so one invalid item at position k gives
\* created_count = N-1, error_count = 1 and the error index k.
C3_BulkIsolatesItemFailures ==
    (last.op = "bulk_log_time" /\ last.args.logs.is_list)
    => LET items == last.args.logs.items
           N == Len(items)
           bad == {k \in 0..(N - 1) : ~ItemIsValid(items[k + 1], last.caller)}
           errors == last.ret.errors
       IN  /\ last.exc = ""
           /\ last.ret.created_count + last.ret.error_count = N
           /\ last.ret.created_count = Len(last.ret.created)
           /\ last.ret.error_count = Len(errors)
           /\ Len(errors) = Cardinality(bad)
           /\ {errors[j].index : j \in 1..Len(errors)} = bad
           /\ \A k \in bad :
                bad = {k} => /\ last.ret.created_count = N - 1
                             /\ last.ret.error_count = 1
                             /\ errors[1].index = k

C3_Witness ==
    /\ last.op = "bulk_log_time"
    /\ last.args.logs.is_list
    /\ Len(last.args.logs.items) = 3
    /\ last.ret.created_count = 2
    /\ last.ret.error_count = 1
    /\ last.ret.errors[1].index = 1

\* C4: a caller without a required role gets PermissionError from
\* generate_invoice and get_all_employees_hours, for every argument value,
\* before any read of the store.
C4_UnauthorizedFailsBeforeAnyRead ==
    (last.op \in {"generate_invoice", "get_all_employees_hours"} /\ last.caller = "emp")
    => (last.exc = "PermissionError" /\ last.reads = 0)

\* The period arguments of the call being answered are numbers or omitted.
PeriodParses == \A t \in {last.args.month, last.args.year} : t = None \/ IsNumeral(t)

\* The entries of project p in the period of the invoice being answered
\* that are not cancelled.
PeriodOf(args) ==
    [month |-> IF args.month = None THEN Today[2] ELSE NumeralVal(args.month),
     year |-> IF args.year = None THEN Today[1] ELSE NumeralVal(args.year)]

LiveInPeriod(p, args) ==
    {i \in Names(timeLogs) :
        /\ timeLogs[i].project = p
        /\ timeLogs[i].log_date[2] = PeriodOf(args).month
        /\ timeLogs[i].log_date[1] = PeriodOf(args).year
        /\ timeLogs[i].docstatus # 2}

\* C5: for an authorized caller and an existing project whose billing rate
\* is zero or unset, generate_invoice raises ValidationError, with or without
\* entries in the period; no invoice it returns has billing_rate = 0.
C5_InvoiceRejectsZeroOrUnsetRate ==
    last.op = "generate_invoice"
    => /\ (/\ last.caller = "mgr"
           /\ PeriodParses
           /\ last.args.project \in Projects
           /\ projectRates[last.args.project] \in {NoRate, <<0>>})
          => last.exc = "ValidationError"
       /\ last.exc = "" => last.ret.billing_rate # 0

C5_Witness ==
    /\ last.op = "generate_invoice"
    /\ last.caller = "mgr"
    /\ last.args.project = P1
    /\ projectRates[P1] = <<0>>
    /\ PeriodParses
    /\ LiveInPeriod(P1, last.args) # {}
    /\ last.exc = "ValidationError"

\* C6: for an authorized caller, generate_invoice raises NotFoundError when
\* the project does not exist, and when it exists with a non-zero rate but
\* has no non-cancelled entry in the requested month and year.
C6_InvoiceNotFoundError ==
    (/\ last.op = "generate_invoice"
     /\ last.caller = "mgr"
     /\ PeriodParses
     /\ \/ last.args.project \notin Projects
        \/ /\ RateOf(last.args.project) # 0
           /\ LiveInPeriod(last.args.project, last.args) = {})
    => last.exc = "NotFoundError"

\* C7: in every payload of get_project_summary and generate_invoice,
\* total_hours is the sum of the hours of the listed entries and total_amount
\* is total_hours times the project's billing rate; get_project_summary
\* answers with total_amount = 0 when the rate is zero or unset.
C7_TotalsAreSumAndSumTimesRate ==
    /\ (last.op \in {"get_project_summary", "generate_invoice"} /\ last.exc = "")
       => /\ last.ret.total_hours = Total(timeLogs, last.ret.logs)
          /\ last.ret.total_amount = last.ret.total_hours * RateOf(last.args.project)
          /\ last.ret.billing_rate = RateOf(last.args.project)
    /\ (/\ last.op = "get_project_summary"
        /\ last.caller = "emp"
        /\ last.args.project \in Projects
        /\ RateOf(last.args.project) = 0)
       => (last.exc = "" /\ last.ret.total_amount = 0)

C7_Witness ==
    /\ last.op = "get_project_summary"
    /\ last.exc = ""
    /\ last.ret.log_count = 2
    /\ last.ret.total_hours = 5
    /\ last.ret.total_amount = 50

\* C8: every aggregation lists exactly the entries of its scope that are not
\* cancelled (docstatus 2), draft or submitted alike.
C8_AggregationsCountExactlyLiveEntries ==
    /\ (last.op = "get_project_summary" /\ last.exc = "")
       => last.ret.logs = {i \in Names(timeLogs) :
                             /\ timeLogs[i].project = last.args.project
                             /\ timeLogs[i].docstatus # 2}
    /\ (last.op = "generate_invoice" /\ last.exc = "")
       => last.ret.logs = LiveInPeriod(last.args.project, last.args)
    /\ (last.op = "get_all_employees_hours" /\ last.exc = "" /\ PeriodParses)
       => last.ret.rows = UNION {LiveInPeriod(p, last.args) : p \in Projects}

C10_LogTimeIsAtomic ==
    [][last'.op = "log_time"
       => \/ /\ last'.exc = ""
             /\ last'.ret.time_log = Len(timeLogs) + 1
             /\ timeLogs' = Append(timeLogs,
                    [project |-> last'.args.project,
                     hours |-> HoursValue(last'.args.hours),
                     log_date |-> IF last'.args.log_date = None THEN Today
                                  ELSE last'.args.log_date,
                     logged_by |-> last'.caller,
                     docstatus |-> 0])
          \/ /\ last'.exc # ""
             /\ timeLogs' = timeLogs]_vars

C10_Witness ==
    /\ last.op = "log_time"
    /\ last.fault = "commit"
    /\ last.exc = "DatabaseError"
    /\ last.commits = 1

\* The names bulk_log_time creates for the batch in progress, and those of
\* them that belong to project p.
BatchNames ==
    LET r == bulk_log_time(bulk.base, bulk.caller, List(bulk.items))
    IN  {r.ret.created[j] : j \in 1..Len(r.ret.created)}

BatchNamesOf(p) == {i \in BatchNames : i <= Len(bulk.b.tx) /\ bulk.b.tx[i].project = p}

\* C11: bulk_log_time commits exactly once per call, after the last item and
\* never between two inserts (also when every item fails): while the loop
\* runs the committed store is as before the call, after the commit it holds
\* every created entry, after a crash none; a summary read by another
\* caller meanwhile lists none or all of the batch's entries of its project.
C11_BulkCommitsOnceAtTheEnd ==
    /\ bulk.status \in {"running", "crashed"}
       => (timeLogs = bulk.base /\ bulk.b.commits = 0)
    /\ bulk.status = "committed"
       => /\ bulk.b.commits = 1
          /\ timeLogs = bulk_log_time(bulk.base, bulk.caller, List(bulk.items)).store
          /\ bulk.b.created = bulk_log_time(bulk.base, bulk.caller,
                                            List(bulk.items)).ret.created
    /\ (last.op = "bulk_log_time" /\ bulk.status = "committed")
       => (last.exc = "" /\ last.commits = 1)
    /\ (last.op = "get_project_summary" /\ last.exc = "" /\ bulk.status = "running")
       => last.ret.logs \cap BatchNames = {}
    /\ (last.op = "get_project_summary" /\ last.exc = "" /\ bulk.status = "committed")
       => LET seen == last.ret.logs \cap BatchNames
          IN  seen = {} \/ seen = BatchNamesOf(last.args.project)

C11_Witness ==
    /\ bulk.status = "running"
    /\ Len(bulk.items) = 2
    /\ bulk.idx = 1
    /\ Len(bulk.b.created) = 1
    /\ bulk.b.tx # timeLogs
    /\ last.op = "get_project_summary"
    /\ last.args.project = P1
    /\ last.exc = ""
    /\ last.ret.log_count = Len(bulk.base)

\* C12: export_annual_report returns its acknowledgement after enqueuing
\* exactly one job carrying the requested year and the caller as requester;
\* the call runs no job and sends no mail, and the acknowledgement holds a
\* message and a tip, no report data.
C12_ExportEnqueuesOneJob ==
    [][(last = Idle /\ last'.op = "export_annual_report" /\ last'.exc = "")
       => /\ Len(jobs') = Len(jobs) + 1
          /\ SubSeq(jobs', 1, Len(jobs)) = jobs
          /\ jobs'[Len(jobs')].year = NumeralVal(last'.args.year)
          /\ jobs'[Len(jobs')].requested_by = last'.caller
          /\ jobs'[Len(jobs')].status = "queued"
          /\ jobs'[Len(jobs')].runs = 0
          /\ outbox' = outbox
          /\ DOMAIN last'.ret = {"message", "tip"}]_vars

C12_Witness ==
    /\ last.op = "export_annual_report"
    /\ last.exc = ""
    /\ last.caller = "emp"
    /\ Len(jobs) = 2
    /\ jobs[2].status = "queued"
    /\ jobs[2].requested_by = "emp"
    /\ jobs[2].year = 2023
    /\ outbox = <<>>

\* The mails about job i: those to its requester for its year.
MailsOf(i) ==
    {k \in 1..Len(outbox) :
        /\ outbox[k].recipients = {jobs[i].requested_by}
        /\ outbox[k].year = jobs[i].year}

C14_UpdateOnlyByAuthorOrPrivileged ==
    [][(/\ last = Idle
        /\ last'.op = "safe_update_hours"
        /\ last'.args.time_log_name \in Names(timeLogs))
       => LET n == last'.args.time_log_name
              allowed == timeLogs[n].logged_by = last'.caller \/ last'.caller = "mgr"
          IN  /\ timeLogs' # timeLogs => allowed
              /\ timeLogs' = [timeLogs EXCEPT ![n].hours = timeLogs'[n].hours]
              /\ ~allowed => /\ last'.exc = "PermissionError"
                             /\ timeLogs' = timeLogs
                             /\ last'.commits = 0]_vars

C14_Witness ==
    /\ last.op = "safe_update_hours"
    /\ last.caller = "emp"
    /\ last.args.time_log_name \in Names(timeLogs)
    /\ timeLogs[last.args.time_log_name].logged_by = "mgr"
    /\ last.exc = "PermissionError"
    /\ last.commits = 0

FirstSeen(g, live) ==
    CHOOSE i \in live :
        /\ timeLogs[i].logged_by = g.logged_by /\ timeLogs[i].project = g.project
        /\ \A j \in live :
              (timeLogs[j].logged_by = g.logged_by /\ timeLogs[j].project = g.project)
              => i <= j

\* C15: get_all_employees_hours returns one row per (author, project) with a
\* non-cancelled entry in the period, total_hours the sum and entries the
\* count of that pair's entries, ordered by total_hours descending, rows of
\* equal total_hours in the order their groups are first seen in the table.
C15_GroupedRowsOrderedTiesFirstSeen ==
    (last.op = "get_all_employees_hours" /\ last.exc = "" /\ PeriodParses)
    => LET live == UNION {LiveInPeriod(p, last.args) : p \in Projects}
           data == last.ret.data
           Of(u, p) == {i \in live : timeLogs[i].logged_by = u /\ timeLogs[i].project = p}
           pairs == {<<timeLogs[i].logged_by, timeLogs[i].project>> : i \in live}
       IN  /\ Len(data) = Cardinality(pairs)
           /\ \A pr \in pairs : \E k \in 1..Len(data) :
                 /\ data[k].logged_by = pr[1] /\ data[k].project = pr[2]
                 /\ data[k].total_hours = Total(timeLogs, Of(pr[1], pr[2]))
                 /\ data[k].entries = Cardinality(Of(pr[1], pr[2]))
           /\ \A k \in 1..(Len(data) - 1) :
                 \/ data[k].total_hours > data[k + 1].total_hours
                 \/ /\ data[k].total_hours = data[k + 1].total_hours
                    /\ FirstSeen(data[k], live) < FirstSeen(data[k + 1], live)

\* The store after log_time is called for each item in turn.
RECURSIVE LogEach(_, _, _)
LogEach(store, caller, items) ==
    IF items = <<>> THEN store
    ELSE LogEach(log_time(store, caller, items[1].project, items[1].hours,
                          items[1].log_date, "none").store,
                 caller, Tail(items))

\* C16: bulk_log_time accepts an item exactly when log_time, called by the
\* same caller with the item's project, hours and date, succeeds: the error
\* indices are the positions log_time rejects (more than 24 hours, an
\* unknown project, no create permission, ...), and the entries created
\* are the ones the log_time calls would have stored.
C16_BulkAcceptsWhatLogTimeAccepts ==
    (last.op = "bulk_log_time" /\ last.args.logs.is_list)
    => LET items == last.args.logs.items
           N == Len(items)
           errors == last.ret.errors
           rejected == {k \in 0..(N - 1) :
                          log_time(<<>>, last.caller, items[k + 1].project,
                                   items[k + 1].hours, items[k + 1].log_date,
                                   "none").exc # ""}
           before == Len(timeLogs) - last.ret.created_count
       IN  /\ {errors[j].index : j \in 1..Len(errors)} = rejected
           /\ last.ret.created_count = N - Cardinality(rejected)
           /\ before >= 0
           /\ timeLogs = LogEach(SubSeq(timeLogs, 1, before), last.caller, items)

C16_Witness ==
    /\ last.op = "bulk_log_time"
    /\ last.caller = "emp"
    /\ last.args.logs.is_list
    /\ Len(last.args.logs.items) = 3
    /\ last.args.logs.items[1].hours = <<"2", "5">>
    /\ last.args.logs.items[2].project = NoProject
    /\ last.args.logs.items[3].hours = <<"2">>
    /\ last.ret.created_count = 1
    /\ {last.ret.errors[j].index : j \in 1..2} = {0, 1}

\* The operations that take a number as text.
TextOps ==
    {"log_time", "safe_update_hours", "generate_invoice", "get_all_employees_hours",
     "download_timesheet_csv", "export_annual_report"}

\* C18: whatever text is passed for hours, month or year, a call of these
\* operations returns or fails with a classified error (ValidationError, or
\* PermissionError for a caller who may not call it), never with a crash.
C18_TextCoercionNeverCrashes ==
    last.op \in TextOps => last.exc \in {"", "ValidationError", "PermissionError"}

\* The two summaries the listing step lets a call return differ in no total.
SummaryTotals(p) == {Total(timeLogs, l) : l \in get_list(timeLogs, p)}

ReadOps ==
    {"get_project_summary", "generate_invoice", "get_all_employees_hours",
     "download_timesheet_csv"}

\* C19: the four reports are read-only: a call, returning or failing,
\* leaves every Time Log and Project as it was and commits nothing, and two
\* identical calls with no write in between return the same totals (in a
\* given state of the store a summary has one possible total).
C19_ReportsReadOnlyAndRepeatable ==
    /\ [][(last = Idle /\ last'.op \in ReadOps)
          => /\ timeLogs' = timeLogs
             /\ projectRates' = projectRates
             /\ last'.commits = 0]_vars
    /\ [](\A p \in Projects : Cardinality(SummaryTotals(p)) = 1)

\* C20: for an authorized caller the file has the header row and exactly
\* one line for each Time Log of the project dated in the requested month
\* of the requested year, from the 1st to the month's last day.
C20_CsvCoversWholeMonth ==
    (last.op = "download_timesheet_csv" /\ last.caller = "mgr" /\ last.exc = "")
    => LET y == date_year(last.args.year)
           wanted == {i \in Names(timeLogs) :
                        /\ timeLogs[i].project = last.args.project
                        /\ y # <<>>
                        /\ timeLogs[i].log_date[1] = y[1]
                        /\ timeLogs[i].log_date[2] = last.args.month.num}
       IN  /\ last.ret.header = "Date,Employee,Hours,Description"
           /\ last.ret.rows = wanted
           /\ DOMAIN last.ret.lines = wanted

====
